---- MODULE Spec2Model ----
(***************************************************************************)
(* A model of the LangChain CLI assistant: the keyword tool selector, the  *)
(* weather query handler with its location extraction and threshold       *)
(* recommendations, the weather data client with its HTTP requests, the   *)
(* command dispatcher, the response reviewer and the CLI turn loop.        *)
(*                                                                         *)
(* Python strings are sequences of one-character strings, so that lower(), *)
(* split(), capitalize() and the substring test `in` are computed the way  *)
(* Python computes them.                                                   *)
(***************************************************************************)
EXTENDS Integers, Sequences, FiniteSets, TLC

VARIABLES
    \* ---- ToolSelector.select_tool / WeatherAgent._extract_location
    query,              \* the free-text query handed to the function
    recommended_tool,   \* result of select_tool, "none" before the call
    extracted,          \* result of _extract_location, empty before the call
    \* ---- WeatherAgent._get_outdoor_activity_recommendations
    weather,            \* the WeatherData snapshot handed to the function
    recommendations,    \* the list it returned
    recs_called,        \* whether it has returned
    \* ---- CommandHandler, WeatherAgent.invoke and WeatherTool
    call,               \* the operation called and its arguments
    pc,                 \* the statement the call has reached
    invoke_query,       \* WeatherAgent.invoke: query
    location,           \* the location the WeatherTool operations are given
    weather_data,       \* WeatherAgent.invoke: weather_data
    coords,             \* WeatherTool._get_coordinates: the (lat, lon) returned
    variation,          \* WeatherTool._get_coordinates: index of the variation tried
    day,                \* WeatherTool.get_historical_air_quality: loop index i
    historical_data,    \* WeatherTool.get_historical_air_quality: historical_data
    http,               \* every requests.get made, with the answer it got
    result,             \* what the call returned, or the exception it raised
    \* ---- ReviewAgent.review_response
    weather_response,   \* the draft answer it is given
    original_query,     \* the query it is given
    review_pc,          \* "call" before, then "returned" or "raised"
    llm_calls,          \* the prompts handed to self.llm.invoke, in order
    reviewed,           \* what review_response returned
    \* ---- main, WeatherApp
    api_key_set,        \* whether OPENWEATHERMAP_API_KEY is set in the environment
    llm_constructs,     \* whether LLM_UTIL.get_llm() returns (else it raises)
    stdin,              \* the lines still to be read; after them, end of input
    app_pc,             \* the statement main has reached
    stdout,             \* what has been printed since the last prompt
    exit_code,          \* <<>> while running, <<n>> once main returned n
    user_input,         \* WeatherApp.run: user_input
    command,            \* WeatherApp.run: command
    args,               \* WeatherApp.run: args
    agent,              \* WeatherApp.run: agent
    error,              \* the exception being handled by run's except clause
    failed_before,      \* whether an earlier turn of this run raised an error
    \* ---- route_query
    route_pc,           \* the statement route_query has reached
    route_input,        \* route_query: query
    route_tool,         \* route_query: recommended_tool
    response,           \* route_query: response, what agent.invoke returned
    final_response,     \* route_query: final_response, <<>> while unbound
    review_args,        \* the arguments of each review_agent.review_response call
    chat_history,       \* the exchanges the agent's memory holds
    route_result        \* what route_query returned

queryVars == <<query, recommended_tool, extracted>>
recsVars == <<weather, recommendations, recs_called>>
toolVars ==
    <<call, pc, invoke_query, location, weather_data, coords, variation, day,
      historical_data, http, result>>

reviewVars == <<weather_response, original_query, review_pc, llm_calls, reviewed>>
appVars ==
    <<api_key_set, llm_constructs, stdin, app_pc, stdout, exit_code, user_input,
      command, args, agent, error, failed_before>>

routeVars ==
    <<route_pc, route_input, route_tool, response, final_response, review_args,
      chat_history, route_result>>

vars == <<queryVars, recsVars, toolVars, reviewVars, appVars, routeVars>>

\* the variables a specification of one part leaves alone
notQuery == <<recsVars, toolVars, reviewVars, appVars, routeVars>>
notRecs == <<queryVars, toolVars, reviewVars, appVars, routeVars>>
notTool == <<queryVars, recsVars, reviewVars, appVars, routeVars>>
notReview == <<queryVars, recsVars, toolVars, appVars, routeVars>>
notApp == <<queryVars, recsVars, toolVars, reviewVars, routeVars>>
notRoute == <<queryVars, recsVars, toolVars, reviewVars, appVars>>

\* the parts that a specification of another part does not run
QueryIdle ==
    /\ query = <<>>
    /\ recommended_tool = "none"
    /\ extracted = <<>>

RecsIdle ==
    /\ weather = [temperature |-> 0, wind_speed |-> 0, description |-> <<>>]
    /\ recommendations = <<>>
    /\ recs_called = FALSE

ToolIdle ==
    /\ call = [op |-> "none", command |-> <<>>, args |-> <<>>, location |-> <<>>, days |-> 0]
    /\ pc = "idle"
    /\ invoke_query = <<>>
    /\ location = <<>>
    /\ weather_data = <<>>
    /\ coords = <<>>
    /\ variation = 0
    /\ day = 0
    /\ historical_data = <<>>
    /\ http = <<>>
    /\ result = <<>>

ReviewIdle ==
    /\ weather_response = <<>>
    /\ original_query = <<>>
    /\ review_pc = "idle"
    /\ llm_calls = <<>>
    /\ reviewed = <<>>

AppIdle ==
    /\ api_key_set = TRUE
    /\ llm_constructs = TRUE
    /\ stdin = <<>>
    /\ app_pc = "idle"
    /\ stdout = <<>>
    /\ exit_code = <<>>
    /\ user_input = <<>>
    /\ command = <<>>
    /\ args = <<>>
    /\ agent = <<>>
    /\ error = <<>>
    /\ failed_before = FALSE

RouteIdle ==
    /\ route_pc = "idle"
    /\ route_input = <<>>
    /\ route_tool = "none"
    /\ response = <<>>
    /\ final_response = <<>>
    /\ review_args = <<>>
    /\ chat_history = <<>>
    /\ route_result = <<>>

(***************************************************************************)
(* Bounds                                                                  *)
(***************************************************************************)
\* longest query, in words, of the query-function specification
MaxWords == 2
\* a temperature or wind speed t is held as the integer t * Resolution, so
\* that the fractional readings between two thresholds are covered
Resolution == 2
\* highest temperature and wind speed drawn, in whole units
MaxReading == 30

(***************************************************************************)
(* Python str primitives                                                   *)
(***************************************************************************)
UpperChars ==
    <<"A","B","C","D","E","F","G","H","I","J","K","L","M",
      "N","O","P","Q","R","S","T","U","V","W","X","Y","Z">>

LowerChars ==
    <<"a","b","c","d","e","f","g","h","i","j","k","l","m",
      "n","o","p","q","r","s","t","u","v","w","x","y","z">>

Range(s) == {s[i] : i \in 1..Len(s)}

lower_char(c) ==
    IF \E i \in 1..Len(UpperChars) : UpperChars[i] = c
    THEN LowerChars[CHOOSE i \in 1..Len(UpperChars) : UpperChars[i] = c]
    ELSE c

upper_char(c) ==
    IF \E i \in 1..Len(LowerChars) : LowerChars[i] = c
    THEN UpperChars[CHOOSE i \in 1..Len(LowerChars) : LowerChars[i] = c]
    ELSE c

\* str.lower()
lower(s) == [i \in 1..Len(s) |-> lower_char(s[i])]

\* str.upper()
upper(s) == [i \in 1..Len(s) |-> upper_char(s[i])]

\* str.capitalize(): first character upper-cased, the rest lower-cased
capitalize(s) ==
    [i \in 1..Len(s) |-> IF i = 1 THEN upper_char(s[i]) ELSE lower_char(s[i])]

\* `needle in hay` on strings: a left-to-right scan for the first occurrence
RECURSIVE find_from(_, _, _)
find_from(hay, needle, i) ==
    IF i + Len(needle) - 1 > Len(hay) THEN FALSE
    ELSE IF SubSeq(hay, i, i + Len(needle) - 1) = needle THEN TRUE
    ELSE find_from(hay, needle, i + 1)

str_in(needle, hay) == find_from(hay, needle, 1)

is_space(c) == c \in {" ", "\n", "\t"}

\* str.split(): split on runs of whitespace, no empty pieces
RECURSIVE split_from(_, _, _, _)
split_from(s, i, cur, acc) ==
    IF i > Len(s)
    THEN (IF cur = <<>> THEN acc ELSE Append(acc, cur))
    ELSE IF is_space(s[i])
    THEN split_from(s, i + 1, <<>>, IF cur = <<>> THEN acc ELSE Append(acc, cur))
    ELSE split_from(s, i + 1, Append(cur, s[i]), acc)

split(s) == split_from(s, 1, <<>>, <<>>)

\* " ".join(words)
RECURSIVE join(_)
join(words) ==
    IF words = <<>> THEN <<>>
    ELSE IF Len(words) = 1 THEN words[1]
    ELSE words[1] \o <<" ">> \o join(Tail(words))

(***************************************************************************)
(* ToolSelector.select_tool                                                *)
(***************************************************************************)
NoTool == "none"

weather_keywords ==
    << <<"w","e","a","t","h","e","r">>,
       <<"t","e","m","p","e","r","a","t","u","r","e">>,
       <<"f","o","r","e","c","a","s","t">>,
       <<"r","a","i","n">>,
       <<"s","n","o","w">>,
       <<"h","u","m","i","d","i","t","y">> >>

\* any(keyword in query_lower for keyword in weather_keywords)
RECURSIVE any_keyword(_, _, _)
any_keyword(keywords, query_lower, k) ==
    IF k > Len(keywords) THEN FALSE
    ELSE IF str_in(keywords[k], query_lower) THEN TRUE
    ELSE any_keyword(keywords, query_lower, k + 1)

select_tool_nolower(q) ==
    IF any_keyword(weather_keywords, q, 1) THEN "weather_agent" ELSE "web_search"

select_tool(q) ==
    LET query_lower == lower(q)
    IN  IF any_keyword(weather_keywords, query_lower, 1)
        THEN "weather_agent"
        ELSE "web_search"

(***************************************************************************)
(* WeatherAgent._extract_location                                          *)
(***************************************************************************)
NoCity == <<>>

pakistani_cities ==
    << <<"I","s","l","a","m","a","b","a","d">>,
       <<"L","a","h","o","r","e">>,
       <<"K","a","r","a","c","h","i">>,
       <<"P","e","s","h","a","w","a","r">>,
       <<"Q","u","e","t","t","a">>,
       <<"R","a","w","a","l","p","i","n","d","i">>,
       <<"M","u","l","t","a","n">>,
       <<"F","a","i","s","a","l","a","b","a","d">>,
       <<"H","y","d","e","r","a","b","a","d">>,
       <<"G","u","j","r","a","n","w","a","l","a">> >>

location_keywords ==
    << <<"i","n">>, <<"a","t">>, <<"f","o","r">>, <<"t","o">>,
       <<"a","r","o","u","n","d">>, <<"n","e","a","r">> >>

\* the same scan walking the list from its end: the last listed city wins
RECURSIVE city_scan_reversed(_, _)
city_scan_reversed(query_lower, n) ==
    LET m == Len(pakistani_cities) + 1 - n
    IN  IF n > Len(pakistani_cities) THEN NoCity
        ELSE IF str_in(lower(pakistani_cities[m]), query_lower) THEN pakistani_cities[m]
        ELSE city_scan_reversed(query_lower, n + 1)

\* for city in pakistani_cities: if city.lower() in query_lower: return city
RECURSIVE city_scan(_, _)
city_scan(query_lower, n) ==
    IF n > Len(pakistani_cities) THEN NoCity
    ELSE IF str_in(lower(pakistani_cities[n]), query_lower) THEN pakistani_cities[n]
    ELSE city_scan(query_lower, n + 1)

\* for i, word in enumerate(words): the token after a preposition, capitalised,
\* is looked up in the lower-cased city names
RECURSIVE keyword_scan(_, _)
keyword_scan(words, i) ==
    IF i > Len(words) THEN NoCity
    ELSE IF words[i] \in Range(location_keywords) /\ i + 1 <= Len(words)
    THEN LET potential_location == capitalize(words[i + 1])
         IN  IF potential_location \in {lower(pakistani_cities[n]) : n \in 1..Len(pakistani_cities)}
             THEN capitalize(potential_location)
             ELSE keyword_scan(words, i + 1)
    ELSE keyword_scan(words, i + 1)

\* the city named in the query is not looked for: the default is returned
extract_location_default(q) == <<"I","s","l","a","m","a","b","a","d">>

extract_location(q) ==
    LET query_lower == lower(q)
        city == city_scan(query_lower, 1)
    IN  IF city # NoCity THEN city
        ELSE LET words == split(query_lower)
                 found == keyword_scan(words, 1)
             IN  IF found # NoCity THEN found
                 ELSE <<"I","s","l","a","m","a","b","a","d">>

(***************************************************************************)
(* Specification of the two query functions: a query is drawn, then each   *)
(* function is applied to it.                                              *)
(***************************************************************************)
QueryWords ==
    { <<"W","e","a","t","h","e","r">>,
      <<"T","r","a","i","n","i","n","g">>,
      <<"s","n","o","w","y">>,
      <<"h","u","m","i","d">>,
      <<"F","O","R","E","C","A","S","T","?">>,
      <<"n","e","w","s">>,
      <<"i","n">>,
      <<"n","e","a","r">>,
      <<"L","a","h","o","r","e">>,
      <<"K","A","R","A","C","H","I">>,
      <<"i","s","l","a","m","a","b","a","d","?">>,
      <<"l","a","h","o","r">>,
      <<"q","u","e","t","t","a","n","s">>,
      <<"P","a","r","i","s">>,
      <<"G","u","j","r","a","n","w","a","l","a">> }

Queries ==
    {join(ws) : ws \in UNION {[1..n -> QueryWords] : n \in 0..MaxWords}}

QueryInit ==
    /\ query \in Queries
    /\ recommended_tool = NoTool
    /\ extracted = NoCity
    /\ RecsIdle
    /\ ToolIdle
    /\ ReviewIdle
    /\ AppIdle
    /\ RouteIdle

SelectTool ==
    /\ recommended_tool = NoTool
    /\ recommended_tool' = select_tool(query)
    /\ UNCHANGED <<query, extracted, notQuery>>

ExtractLocation ==
    /\ extracted = NoCity
    /\ extracted' = extract_location(query)
    /\ UNCHANGED <<query, recommended_tool, notQuery>>

QueryNext == SelectTool \/ ExtractLocation

SpecQuery == QueryInit /\ [][QueryNext]_vars

(***************************************************************************)
(* C1                                                                      *)
(***************************************************************************)
\* the query, lower-cased, holds keyword kw at some position
Occurs(kw, q) ==
    \E i \in 1..Len(q) :
        /\ i + Len(kw) - 1 <= Len(q)
        /\ \A j \in 1..Len(kw) : lower_char(q[i + j - 1]) = kw[j]

\* C1: select_tool returns "weather_agent" exactly for the queries whose
\* lower-cased text holds one of the six keywords as a substring, returns
\* "web_search" for every other query, and returns nothing else.
C1_SelectTool ==
    recommended_tool # NoTool =>
        /\ recommended_tool \in {"weather_agent", "web_search"}
        /\ recommended_tool = "weather_agent" <=>
               \E k \in 1..Len(weather_keywords) : Occurs(weather_keywords[k], query)

\* a query matched only through lower-casing and inside a longer word
C1_Witness ==
    /\ recommended_tool = "weather_agent"
    /\ query = <<"T","r","a","i","n","i","n","g">> \o <<" ">> \o <<"n","e","w","s">>

(***************************************************************************)
(* C2                                                                      *)
(***************************************************************************)
CityOccurs(n, q) == Occurs(lower(pakistani_cities[n]), q)

\* C2: _extract_location returns the first listed city whose name occurs
\* case-insensitively in the query, "Islamabad" when none occurs; the result
\* is one of the ten cities, and the preposition scan yields nothing.
C2_ExtractLocation ==
    extracted # NoCity =>
        /\ extracted \in Range(pakistani_cities)
        /\ keyword_scan(split(lower(query)), 1) = NoCity
        /\ IF \E n \in 1..Len(pakistani_cities) : CityOccurs(n, query)
           THEN \E n \in 1..Len(pakistani_cities) :
                   /\ CityOccurs(n, query)
                   /\ \A m \in 1..(n - 1) : ~CityOccurs(m, query)
                   /\ extracted = pakistani_cities[n]
           ELSE extracted = pakistani_cities[1]

\* two cities in the query, the later-listed one written first
C2_Witness ==
    /\ extracted = <<"L","a","h","o","r","e">>
    /\ query = <<"K","A","R","A","C","H","I">> \o <<" ">> \o <<"L","a","h","o","r","e">>

(***************************************************************************)
(* WeatherAgent._get_outdoor_activity_recommendations                      *)
(***************************************************************************)
\* a threshold of the source, in the units readings are held in
units(n) == n * Resolution

SwimmingAdvisory == "Great day for swimming or beach activities"
HikingAdvisory == "Perfect for hiking or outdoor sports"
IndoorAdvisory == "Consider indoor activities or dress warmly for outdoor activities"
HighWindAdvisory == "High winds - avoid activities that require balance"
RainAdvisory == "Rain expected - consider indoor activities"

\* the chain with the first comparison written >= : 25 degrees gives swimming
temperature_advisory_ge(w) ==
    IF w.temperature >= units(25) THEN <<SwimmingAdvisory>>
    ELSE IF units(15) <= w.temperature /\ w.temperature <= units(25) THEN <<HikingAdvisory>>
    ELSE IF w.temperature < units(15) THEN <<IndoorAdvisory>>
    ELSE <<>>

\* the if / elif / elif chain on weather.temperature
temperature_advisory(w) ==
    IF w.temperature > units(25) THEN <<SwimmingAdvisory>>
    ELSE IF units(15) <= w.temperature /\ w.temperature <= units(25) THEN <<HikingAdvisory>>
    ELSE IF w.temperature < units(15) THEN <<IndoorAdvisory>>
    ELSE <<>>

get_outdoor_activity_recommendations(w) ==
    temperature_advisory(w)
        \o (IF w.wind_speed > units(20) THEN <<HighWindAdvisory>> ELSE <<>>)
        \o (IF str_in(<<"r","a","i","n">>, lower(w.description))
            THEN <<RainAdvisory>> ELSE <<>>)

Descriptions ==
    { <<"l","i","g","h","t"," ","r","a","i","n">>,
      <<"c","l","e","a","r"," ","s","k","y">>,
      <<"H","e","a","v","y"," ","R","a","i","n">> }

\* readings from 5 units below zero up to MaxReading, Resolution steps per unit
Readings == (0 - units(5))..units(MaxReading)

RecsInit ==
    /\ weather \in [temperature : Readings,
                    wind_speed : {r \in Readings : r >= units(18) /\ r <= units(22)},
                    description : Descriptions]
    /\ recommendations = <<>>
    /\ recs_called = FALSE
    /\ QueryIdle
    /\ ToolIdle
    /\ ReviewIdle
    /\ AppIdle
    /\ RouteIdle

OutdoorRecommendations ==
    /\ ~recs_called
    /\ recommendations' = get_outdoor_activity_recommendations(weather)
    /\ recs_called' = TRUE
    /\ UNCHANGED <<weather, notRecs>>

RecsNext == OutdoorRecommendations

SpecRecs == RecsInit /\ [][RecsNext]_vars

(***************************************************************************)
(* C3                                                                      *)
(***************************************************************************)
TemperatureAdvisories == {SwimmingAdvisory, HikingAdvisory, IndoorAdvisory}

\* C3: the outdoor-activity list holds exactly one temperature advisory:
\* swimming iff temperature > 25, hiking iff 15 <= temperature <= 25, indoor
\* iff temperature < 15; the high-wind advisory is in it iff wind speed > 20.
C3_OutdoorRecommendations ==
    recs_called =>
        LET t == weather.temperature
            has(a) == \E i \in 1..Len(recommendations) : recommendations[i] = a
        IN  /\ Cardinality({i \in 1..Len(recommendations) :
                               recommendations[i] \in TemperatureAdvisories}) = 1
            /\ has(SwimmingAdvisory) <=> (t > 25 * Resolution)
            /\ has(HikingAdvisory) <=> (15 * Resolution <= t /\ t <= 25 * Resolution)
            /\ has(IndoorAdvisory) <=> (t < 15 * Resolution)
            /\ has(HighWindAdvisory) <=> (weather.wind_speed > 20 * Resolution)

\* the boundary reading of exactly 25 degrees, with wind above 20
C3_Witness ==
    /\ recs_called
    /\ weather.temperature = 25 * Resolution
    /\ weather.wind_speed > 20 * Resolution
    /\ recommendations[1] = HikingAdvisory
    /\ recommendations[2] = HighWindAdvisory

(***************************************************************************)
(* More Python str and int primitives                                      *)
(***************************************************************************)
DigitChars == <<"0","1","2","3","4","5","6","7","8","9">>

is_alpha(c) == c \in Range(UpperChars) \cup Range(LowerChars)

\* str.title(): a letter that follows a non-letter is upper-cased, any other
\* letter is lower-cased
title(s) ==
    [i \in 1..Len(s) |->
        IF i = 1 \/ ~is_alpha(s[i - 1]) THEN upper_char(s[i]) ELSE lower_char(s[i])]

\* str.isdigit(): non-empty and all characters digits
isdigit(s) == s # <<>> /\ \A i \in 1..Len(s) : s[i] \in Range(DigitChars)

digit_value(c) == (CHOOSE d \in 1..Len(DigitChars) : DigitChars[d] = c) - 1

\* int(s) for an all-digit string
RECURSIVE parse_int(_)
parse_int(s) ==
    IF s = <<>> THEN 0
    ELSE 10 * parse_int(SubSeq(s, 1, Len(s) - 1)) + digit_value(s[Len(s)])

\* str(n) for an integer, as an f-string formats it
RECURSIVE str_nat(_)
str_nat(n) ==
    IF n < 10 THEN <<DigitChars[n + 1]>>
    ELSE str_nat(n \div 10) \o <<DigitChars[(n % 10) + 1]>>

str_int(n) == IF n < 0 THEN <<"-">> \o str_nat(0 - n) ELSE str_nat(n)

\* str.strip(): leading and trailing whitespace removed
RECURSIVE strip(_)
strip(s) ==
    IF s = <<>> THEN s
    ELSE IF is_space(s[1]) THEN strip(Tail(s))
    ELSE IF is_space(s[Len(s)]) THEN strip(SubSeq(s, 1, Len(s) - 1))
    ELSE s

(***************************************************************************)
(* String literals of the source                                           *)
(***************************************************************************)
S_weather_query ==
    <<"W","h","a","t","'","s"," ","t","h","e"," ","c","u","r","r","e","n","t"," ","w","e","a",
      "t","h","e","r"," ","i","n"," ">>

S_question_mark ==
    <<"?">>

S_no_location ==
    <<"I"," ","c","o","u","l","d","n","'","t"," ","d","e","t","e","r","m","i","n","e"," ","t",
      "h","e"," ","l","o","c","a","t","i","o","n"," ","f","r","o","m"," ","y","o","u","r"," ",
      "q","u","e","r","y","."," ","P","l","e","a","s","e"," ","s","p","e","c","i","f","y"," ",
      "a"," ","l","o","c","a","t","i","o","n"," ","n","a","m","e",".">>

S_sorry ==
    <<"S","o","r","r","y",","," ","I"," ","e","n","c","o","u","n","t","e","r","e","d"," ","a",
      "n"," ","e","r","r","o","r",":"," ">>

S_rephrase ==
    <<"."," ","P","l","e","a","s","e"," ","t","r","y"," ","r","e","p","h","r","a","s","i","n",
      "g"," ","y","o","u","r"," ","q","u","e","s","t","i","o","n",".">>

S_api_error ==
    <<"A","P","I"," ","e","r","r","o","r",":"," ">>

S_unknown_error ==
    <<"U","n","k","n","o","w","n"," ","e","r","r","o","r">>

S_temp_in ==
    <<"T","h","e"," ","c","u","r","r","e","n","t"," ","t","e","m","p","e","r","a","t","u","r",
      "e"," ","i","n"," ">>

S_is ==
    <<" ","i","s"," ">>

S_deg_c_dot ==
    <<"deg","C",".">>

S_temperature ==
    <<"t","e","m","p","e","r","a","t","u","r","e">>

S_rain ==
    <<"r","a","i","n">>
\* the help text, held as one opaque symbol

(***************************************************************************)
(* CommandHandler: each handler either returns a string at once or calls   *)
(* WeatherAgent.invoke with the query it builds                            *)
(***************************************************************************)
Return(text) == [kind |-> "return", text |-> text]
Invoke(q) == [kind |-> "invoke", text |-> q]

\* the keys of self.commands
commands ==
    { <<"w","e","a","t","h","e","r">>,
      <<"f","o","r","e","c","a","s","t">>,
      <<"a","i","r">>,
      <<"r","e","c","o","m","m","e","n","d">>,
      <<"t","r","a","v","e","l">>,
      <<"h","e","l","p">> }

handle_weather(a) ==
    IF a = <<>> THEN Return(<<"P","l","e","a","s","e"," ","p","r","o","v","i","d","e"," ",
                              "a"," ","l","o","c","a","t","i","o","n","."," ","U","s","a",
                              "g","e",":"," ","w","e","a","t","h","e","r"," ","[","l","o",
                              "c","a","t","i","o","n","]">>)
    ELSE Invoke(S_weather_query \o join(a) \o S_question_mark)

\* the default number of days when none is given
DefaultDays == 3

forecast_location(a) ==
    IF Len(a) > 1 THEN join(SubSeq(a, 1, Len(a) - 1)) ELSE a[1]

forecast_days(a) ==
    IF Len(a) > 1 /\ isdigit(a[Len(a)]) THEN parse_int(a[Len(a)]) ELSE DefaultDays

handle_forecast(a) ==
    IF Len(a) < 1 THEN Return(<<"P","l","e","a","s","e"," ","p","r","o","v","i","d","e"," ",
                                "a"," ","l","o","c","a","t","i","o","n"," ","a","n","d"," ",
                                "o","p","t","i","o","n","a","l","l","y"," ","n","u","m","b",
                                "e","r"," ","o","f"," ","d","a","y","s","."," ","U","s","a",
                                "g","e",":"," ","f","o","r","e","c","a","s","t"," ","[","l",
                                "o","c","a","t","i","o","n","]"," ","[","d","a","y","s",
                                "]">>)
    ELSE Invoke(<<"W","h","a","t","'","s"," ","t","h","e"," ">>
                \o str_int(forecast_days(a))
                \o <<"-","d","a","y"," ","f","o","r","e","c","a","s","t"," ","f","o","r"," ">>
                \o forecast_location(a) \o S_question_mark)

handle_air(a) ==
    IF a = <<>> THEN Return(<<"P","l","e","a","s","e"," ","p","r","o","v","i","d","e"," ",
                              "a"," ","l","o","c","a","t","i","o","n","."," ","U","s","a",
                              "g","e",":"," ","a","i","r"," ","[","l","o","c","a","t","i",
                              "o","n","]">>)
    ELSE Invoke(<<"W","h","a","t","'","s"," ","t","h","e"," ","a","i","r"," ","q","u","a",
                  "l","i","t","y"," ","i","n"," ">> \o join(a) \o S_question_mark)

handle_recommend(a) ==
    IF a = <<>> THEN Return(<<"P","l","e","a","s","e"," ","p","r","o","v","i","d","e"," ",
                              "a"," ","l","o","c","a","t","i","o","n","."," ","U","s","a",
                              "g","e",":"," ","r","e","c","o","m","m","e","n","d"," ","[",
                              "l","o","c","a","t","i","o","n","]">>)
    ELSE Invoke(<<"W","h","a","t"," ","a","r","e"," ","t","h","e"," ","w","e","a","t","h",
                  "e","r"," ","r","e","c","o","m","m","e","n","d","a","t","i","o","n","s",
                  " ","f","o","r"," ">> \o join(a) \o S_question_mark)

handle_travel(a) ==
    IF a = <<>> THEN Return(<<"P","l","e","a","s","e"," ","p","r","o","v","i","d","e"," ",
                              "a"," ","l","o","c","a","t","i","o","n","."," ","U","s","a",
                              "g","e",":"," ","t","r","a","v","e","l"," ","[","l","o","c",
                              "a","t","i","o","n","]">>)
    ELSE Invoke(<<"W","h","a","t","'","s"," ","t","h","e"," ","t","r","a","v","e","l"," ",
                  "i","m","p","a","c","t"," ","i","n"," ">> \o join(a) \o S_question_mark)

\* the help text is held as one opaque symbol
handle_help(a) == Return(<<"help_text">>)

handle_command(c, a) ==
    IF c \notin commands THEN Invoke(strip(c \o <<" ">> \o join(a)))
    ELSE IF c = <<"w","e","a","t","h","e","r">> THEN handle_weather(a)
    ELSE IF c = <<"f","o","r","e","c","a","s","t">> THEN handle_forecast(a)
    ELSE IF c = <<"a","i","r">> THEN handle_air(a)
    ELSE IF c = <<"r","e","c","o","m","m","e","n","d">> THEN handle_recommend(a)
    ELSE IF c = <<"t","r","a","v","e","l">> THEN handle_travel(a)
    ELSE handle_help(a)

(***************************************************************************)
(* WeatherTool: the HTTP requests                                          *)
(***************************************************************************)
\* longest history asked of get_historical_air_quality, longest forecast asked
\* of get_weather_forecast, in days
MaxDays == 3

\* a request: the endpoint and its parameters besides appid; a parameter that
\* is not sent is <<>>, one that is sent is <<value>>
Request(endpoint, q, coord, unit_system, limit, cnt, start) ==
    [endpoint |-> endpoint, q |-> q, coord |-> coord, units |-> unit_system,
     limit |-> limit, cnt |-> cnt, start |-> start]

\* get_current_weather: params = {"q": location, "appid": ..., "units": "metric"}
CurrentWeatherRequest(loc) ==
    Request("weather", <<loc>>, <<>>, <<"metric">>, <<>>, <<>>, <<>>)

\* _get_coordinates: params = {"q": loc, "appid": ..., "limit": 1}
GeocodeRequest(loc) ==
    Request("geo/1.0/direct", <<loc>>, <<>>, <<>>, <<1>>, <<>>, <<>>)

\* _get_coordinates fallback: params = {"q": loc, "appid": ...}
FallbackRequest(loc) ==
    Request("weather", <<loc>>, <<>>, <<>>, <<>>, <<>>, <<>>)

\* get_air_quality: params = {"lat": lat, "lon": lon, "appid": ...}
AirPollutionRequest(c) ==
    Request("air_pollution", <<>>, <<c>>, <<>>, <<>>, <<>>, <<>>)

\* get_weather_forecast: params with units metric and cnt = days * 8
ForecastRequest(c, d) ==
    Request("forecast", <<>>, <<c>>, <<"metric">>, <<>>, <<d * 8>>, <<>>)

\* get_historical_air_quality: start = end = now - timedelta(days=i), held as
\* the day offset i
HistoryRequest(c, offset) ==
    Request("air_pollution/history", <<>>, <<c>>, <<>>, <<>>, <<>>, <<offset>>)

\* what the provider may answer: kind "ok" is status 200 with a JSON body,
\* "status" any other status, "exception" a failure of requests.get itself
Response(kind, message, data) == [kind |-> kind, message |-> message, data |-> data]

Coordinates == {<<31, 74>>, <<25, 67>>}

Failure == Response("status", <<>>, <<>>)

\* _make_api_request raises when requests.get raises or the status is not 200
raises(resp) == resp.kind # "ok"

\* str(e) of the exception _make_api_request raises
error_text(resp) ==
    IF resp.kind = "exception" THEN resp.message
    ELSE S_api_error \o (IF resp.message = <<>> THEN S_unknown_error ELSE resp.message)

(***************************************************************************)
(* WeatherTool._get_coordinates                                            *)
(***************************************************************************)
\* the variations with the title-case one tried before the country ones
location_variations_title_first(loc) ==
    <<loc, title(loc), loc \o <<",","P","K">>,
      loc \o <<",","P","a","k","i","s","t","a","n">>, upper(loc)>>

location_variations(loc) ==
    <<loc, loc \o <<",","P","K">>, loc \o <<",","P","a","k","i","s","t","a","n">>
                                          , title(loc), upper(loc)>>

\* the geocoding answer is taken when it is a non-empty list
geocode_found(resp) == ~raises(resp) /\ resp.data # <<>>

\* the statement that follows _get_coordinates in its caller
after_coordinates(c) ==
    IF c.op = "handle_command" THEN "air_pollution"
    ELSE IF c.op = "get_weather_forecast" THEN "forecast"
    ELSE "history"

\* where the exception of _get_coordinates goes: WeatherAgent.invoke passes
\* over a failed get_air_quality, a direct caller of the tool receives it
coordinates_not_found(c, loc) ==
    IF c.op = "handle_command"
    THEN [pc |-> "format", result |-> <<>>]
    ELSE [pc |-> "raised", result |-> <<"C","o","u","l","d"," ","n","o","t"," ","f","i","n",
                                        "d"," ","c","o","o","r","d","i","n","a","t","e","s",
                                        " ","f","o","r"," ">> \o loc \o
                                                <<"."," ","P","l","e","a","s","e"," ","c",
                                                  "h","e","c","k"," ","t","h","e"," ","l",
                                                  "o","c","a","t","i","o","n"," ","n","a",
                                                  "m","e"," ","a","n","d"," ","t","r","y",
                                                  " ","a","g","a","i","n",".">>]

Geocode ==
    /\ pc = "geocode"
    /\ \E resp \in
            ({Response("ok", <<>>, <<>>), Failure}
              \cup {Response("ok", <<>>, <<c>>) : c \in Coordinates}) :
        /\ http' = Append(http, [req |-> GeocodeRequest(location_variations(location)[variation]),
                                 resp |-> resp])
        /\ IF geocode_found(resp)
           THEN /\ coords' = resp.data[1]
                /\ pc' = after_coordinates(call)
                /\ UNCHANGED variation
           ELSE /\ UNCHANGED coords
                /\ IF variation < Len(location_variations(location))
                   THEN variation' = variation + 1 /\ UNCHANGED pc
                   ELSE variation' = 1 /\ pc' = "fallback"
    /\ UNCHANGED <<call, invoke_query, location, weather_data, day, historical_data,
                   result, notTool>>

Fallback ==
    /\ pc = "fallback"
    /\ \E resp \in ({Failure} \cup {Response("ok", <<>>, <<c>>) : c \in Coordinates}) :
        /\ http' = Append(http, [req |-> FallbackRequest(location_variations(location)[variation]),
                                 resp |-> resp])
        /\ IF ~raises(resp)
           THEN /\ coords' = resp.data[1]
                /\ pc' = after_coordinates(call)
                /\ UNCHANGED <<variation, result>>
           ELSE /\ UNCHANGED coords
                /\ IF variation < Len(location_variations(location))
                   THEN variation' = variation + 1 /\ UNCHANGED <<pc, result>>
                   ELSE /\ UNCHANGED variation
                        /\ pc' = coordinates_not_found(call, location).pc
                        /\ result' = coordinates_not_found(call, location).result
    /\ UNCHANGED <<call, invoke_query, location, weather_data, day, historical_data,
                   notTool>>

(***************************************************************************)
(* WeatherAgent.invoke, as CommandHandler.handle_command calls it          *)
(***************************************************************************)
\* weather_data has no "air_quality" key
NoAqi == 0

\* an exception inside the try of invoke is propagated to the caller
invoke_reraise(e) == [pc |-> "raised", result |-> e]

\* except Exception as e: return f"Sorry, I encountered an error: ..."
invoke_except(e) == [pc |-> "returned", result |-> S_sorry \o e \o S_rephrase]

\* the three response templates, chosen by the words of the query
format_response(q, loc, wd) ==
    IF str_in(S_temperature, lower(q))
    THEN S_temp_in \o loc \o S_is \o str_int(wd.temperature) \o S_deg_c_dot
    ELSE IF str_in(S_rain, lower(q))
    THEN <<"I","n"," ">> \o loc \o <<","," ","t","h","e"," ","c","u","r","r","e","n","t",
                                     " ","c","o","n","d","i","t","i","o","n","s"," ","a",
                                     "r","e"," ">> \o wd.description \o <<".">>
    ELSE <<"C","u","r","r","e","n","t"," ","w","e","a","t","h","e","r"," ","i","n"," ">>
            \o loc \o <<":"," ">> \o wd.description
            \o <<","," ","T","e","m","p","e","r","a","t","u","r","e",":"," ">>
            \o str_int(wd.temperature)
            \o <<"deg","C",","," ","H","u","m","i","d","i","t","y",":"," ">>
            \o str_int(wd.humidity)
            \o <<"%",","," ","W","i","n","d"," ","S","p","e","e","d",":"," ">>
            \o str_int(wd.wind_speed) \o <<" ","k","m","/","h",".">>

HandleCommand ==
    /\ pc = "handle_command"
    /\ LET handled == handle_command(call.command, call.args)
       IN  IF handled.kind = "return"
           THEN pc' = "returned" /\ result' = handled.text /\ UNCHANGED invoke_query
           ELSE pc' = "invoke" /\ invoke_query' = handled.text /\ UNCHANGED result
    /\ UNCHANGED <<call, location, weather_data, coords, variation, day,
                   historical_data, http, notTool>>

\* location = self._extract_location(query)
InvokeExtractLocation ==
    /\ pc = "invoke"
    /\ location' = extract_location(invoke_query)
    /\ IF location' = <<>>
       THEN pc' = "returned" /\ result' = S_no_location
       ELSE pc' = "current_weather" /\ UNCHANGED result
    /\ UNCHANGED <<call, invoke_query, weather_data, coords, variation, day,
                   historical_data, http, notTool>>

\* current_weather = self.weather_tool.get_current_weather(location), and the
\* weather_data built from it; get_air_quality starts with _get_coordinates
InvokeCurrentWeather ==
    /\ pc = "current_weather"
    /\ \E resp \in
            {Response("ok", <<>>,
                      [temp |-> t, humidity |-> 40, speed |-> 12,
                       description |-> <<"c","l","e","a","r"," ","s","k","y">>]) :
                 t \in {0 - 3, 31}}
            \cup {Failure,
                  Response("status",
                           <<"c","i","t","y"," ","n","o","t"," ","f","o","u","n","d">>, <<>>),
                  Response("exception",
                           <<"c","o","n","n","e","c","t","i","o","n"," ","r","e","f","u","s",
                             "e","d">>, <<>>)} :
        /\ http' = Append(http, [req |-> CurrentWeatherRequest(location), resp |-> resp])
        /\ IF raises(resp)
           THEN /\ pc' = invoke_except(error_text(resp)).pc
                /\ result' = invoke_except(error_text(resp)).result
                /\ UNCHANGED <<weather_data, variation>>
           ELSE /\ weather_data' = [temperature |-> resp.data.temp,
                                    humidity |-> resp.data.humidity,
                                    wind_speed |-> resp.data.speed,
                                    description |-> resp.data.description,
                                    location |-> location,
                                    air_quality |-> NoAqi]
                /\ pc' = "geocode"
                /\ variation' = 1
                /\ UNCHANGED result
    /\ UNCHANGED <<call, invoke_query, location, coords, day, historical_data, notTool>>

\* current_aqi = self.weather_tool.get_air_quality(location), inside
\* try / except Exception: pass
InvokeAirQuality ==
    /\ pc = "air_pollution"
    /\ \E resp \in ({Failure, Response("ok", <<>>, <<[aqi |-> 4]>>)}) :
        /\ http' = Append(http, [req |-> AirPollutionRequest(coords), resp |-> resp])
        /\ weather_data' =
              IF raises(resp) THEN weather_data
              ELSE [weather_data EXCEPT !.air_quality = resp.data[1].aqi]
    /\ pc' = "format"
    /\ UNCHANGED <<call, invoke_query, location, coords, variation, day,
                   historical_data, result, notTool>>

InvokeFormat ==
    /\ pc = "format"
    /\ result' = format_response(invoke_query, location, weather_data)
    /\ pc' = "returned"
    /\ UNCHANGED <<call, invoke_query, location, weather_data, coords, variation, day,
                   historical_data, http, notTool>>

(***************************************************************************)
(* WeatherTool.get_weather_forecast, after _get_coordinates                *)
(***************************************************************************)
GetWeatherForecast ==
    /\ pc = "forecast"
    /\ \E resp \in ({Failure, Response("ok", <<>>, <<[temp |-> 31]>>)}) :
        /\ http' = Append(http, [req |-> ForecastRequest(coords, call.days), resp |-> resp])
        /\ IF raises(resp)
           THEN pc' = "raised" /\ result' = error_text(resp)
           ELSE pc' = "returned" /\ result' = resp.data
    /\ UNCHANGED <<call, invoke_query, location, weather_data, coords, variation, day,
                   historical_data, notTool>>

(***************************************************************************)
(* WeatherTool.get_historical_air_quality, after _get_coordinates          *)
(***************************************************************************)
\* the first failed day ends the loop
next_day_break(resp, d, n) == IF raises(resp) THEN n ELSE d + 1

\* for i in range(days): a failed day is passed over by `continue`
next_day(resp, d, n) == d + 1

\* the entry appended for day d, if any
history_entry(resp, d) ==
    IF ~raises(resp) /\ resp.data # <<>>
    THEN <<[date |-> d, aqi |-> resp.data[1].aqi]>>
    ELSE <<>>

HistoryDay ==
    /\ pc = "history"
    /\ day < call.days
    /\ \E resp \in
            ({Failure, Response("ok", <<>>, <<>>), Response("ok", <<>>, <<[aqi |-> 2]>>)}) :
        /\ http' = Append(http, [req |-> HistoryRequest(coords, day), resp |-> resp])
        /\ historical_data' = historical_data \o history_entry(resp, day)
        /\ day' = next_day(resp, day, call.days)
    /\ UNCHANGED <<call, pc, invoke_query, location, weather_data, coords, variation,
                   result, notTool>>

HistoryReturn ==
    /\ pc = "history"
    /\ day >= call.days
    /\ pc' = "returned"
    /\ result' = historical_data
    /\ UNCHANGED <<call, invoke_query, location, weather_data, coords, variation, day,
                   historical_data, http, notTool>>

(***************************************************************************)
(* Specification of the command dispatcher and the weather data client:    *)
(* one call is drawn, then runs request by request to its return           *)
(***************************************************************************)
Command(c, a) ==
    [op |-> "handle_command", command |-> c, args |-> a, location |-> <<>>, days |-> 0]

ToolCall(op, loc, d) ==
    [op |-> op, command |-> <<>>, args |-> <<>>, location |-> loc, days |-> d]

W_weather == <<"w","e","a","t","h","e","r">>
W_forecast == <<"f","o","r","e","c","a","s","t">>
W_air == <<"a","i","r">>
W_recommend == <<"r","e","c","o","m","m","e","n","d">>
W_travel == <<"t","r","a","v","e","l">>
W_Lahore == <<"L","a","h","o","r","e">>
W_Karachi == <<"K","a","r","a","c","h","i">>

CommandLines ==
    { Command(W_weather, <<W_Lahore>>),
      Command(W_weather, <<>>),
      Command(W_forecast, <<W_Karachi, <<"5">> >>),
      Command(W_forecast, <<W_Karachi>>),
      Command(W_forecast, <<W_Lahore, <<"C","a","n","t","t">>>>),
      Command(W_forecast, <<>>),
      Command(W_air, <<W_Karachi>>),
      Command(W_air, <<>>),
      Command(W_recommend, <<W_Lahore>>),
      Command(W_recommend, <<>>),
      Command(W_travel, <<W_Karachi>>),
      Command(W_travel, <<>>),
      Command(<<"h","e","l","p">>, <<>>),
      Command(<<"h","e","l","l","o">>, <<W_Lahore>>),
      Command(S_temperature, <<W_Karachi>>),
      Command(S_rain, <<W_Lahore>>) }

ToolCalls ==
    {ToolCall("get_historical_air_quality", W_Lahore, d) : d \in 0..MaxDays}
    \cup {ToolCall("get_weather_forecast", loc, d) :
             loc \in {W_Karachi, <<"n","e","w"," ","y","o","r","k">>}, d \in 1..MaxDays}

ToolInit ==
    /\ call \in CommandLines \cup ToolCalls
    /\ pc = (IF call.op = "handle_command" THEN "handle_command" ELSE "geocode")
    /\ invoke_query = <<>>
    /\ location = call.location
    /\ weather_data = <<>>
    /\ coords = <<>>
    /\ variation = (IF call.op = "handle_command" THEN 0 ELSE 1)
    /\ day = 0
    /\ historical_data = <<>>
    /\ http = <<>>
    /\ result = <<>>
    /\ QueryIdle
    /\ RecsIdle
    /\ ReviewIdle
    /\ AppIdle
    /\ RouteIdle

ToolNext ==
    \/ HandleCommand
    \/ InvokeExtractLocation
    \/ InvokeCurrentWeather
    \/ Geocode
    \/ Fallback
    \/ InvokeAirQuality
    \/ InvokeFormat
    \/ GetWeatherForecast
    \/ HistoryDay
    \/ HistoryReturn

SpecTool == ToolInit /\ [][ToolNext]_vars

(***************************************************************************)
(* C4                                                                      *)
(***************************************************************************)
\* the history requests made so far, in the order they were made
HistoryLog == SelectSeq(http, LAMBDA e : e.req.endpoint = "air_pollution/history")

\* the day offsets whose request was answered with a non-empty list
DaysAnswered ==
    {d \in 0..(Len(HistoryLog) - 1) :
        /\ HistoryLog[d + 1].resp.kind = "ok"
        /\ HistoryLog[d + 1].resp.data # <<>>}

\* C4: once the coordinates are resolved, get_historical_air_quality makes
\* one history request per day offset 0..N-1, in order, whatever the earlier
\* days answered; it never raises; what it returns has at most N entries, in
\* day order, one for exactly the days answered with a non-empty list.
C4_HistoricalAirQuality ==
    (call.op = "get_historical_air_quality" /\ coords # <<>>) =>
        /\ pc \in {"history", "returned"}
        /\ Len(HistoryLog) = day
        /\ \A j \in 1..Len(HistoryLog) : HistoryLog[j].req = HistoryRequest(coords, j - 1)
        /\ Len(historical_data) <= call.days
        /\ {historical_data[j].date : j \in 1..Len(historical_data)} = DaysAnswered
        /\ \A j \in 1..(Len(historical_data) - 1) :
              historical_data[j].date < historical_data[j + 1].date
        /\ pc = "returned" => (Len(HistoryLog) = call.days /\ result = historical_data)

\* three days asked, the first fails, the second is empty, the third answers
C4_Witness ==
    /\ call.op = "get_historical_air_quality"
    /\ call.days = 3
    /\ pc = "returned"
    /\ Len(HistoryLog) = 3
    /\ HistoryLog[1].resp.kind = "status"
    /\ HistoryLog[2].resp = Response("ok", <<>>, <<>>)
    /\ result = <<[date |-> 2, aqi |-> 2]>>

(***************************************************************************)
(* C5                                                                      *)
(***************************************************************************)
\* C5: when `forecast Karachi 5` has been handled, and every request made
\* for it was answered, a 5-day forecast request at the coordinates resolved
\* for Karachi has been made.
C5_ForecastRequested ==
    ( /\ call = Command(W_forecast, <<W_Karachi, <<"5">> >>)
      /\ pc = "returned"
      /\ \A j \in 1..Len(http) : ~raises(http[j].resp) )
    => \E j \in 1..Len(http) : http[j].req = ForecastRequest(coords, 5)

(***************************************************************************)
(* C6                                                                      *)
(***************************************************************************)
\* C6: handling `weather Lahore` calls the current-conditions operation with
\* location "Lahore" (its request is the first one made, with q = Lahore),
\* and when that request is answered the string returned holds "Lahore" and
\* the temperature of the answer.
C6_WeatherLahore ==
    call = Command(W_weather, <<W_Lahore>>) =>
        /\ pc \notin {"handle_command", "invoke", "current_weather"} =>
              /\ http # <<>>
              /\ http[1].req = CurrentWeatherRequest(W_Lahore)
        /\ pc = "raised" => FALSE
        /\ (pc = "returned" /\ ~raises(http[1].resp)) =>
              /\ str_in(W_Lahore, result)
              /\ str_in(str_int(http[1].resp.data.temp), result)

\* answered with -3 degrees, the air-quality request failing
C6_Witness ==
    /\ call = Command(W_weather, <<W_Lahore>>)
    /\ pc = "returned"
    /\ http[1].resp.kind = "ok"
    /\ http[1].resp.data.temp = 0 - 3
    /\ raises(http[Len(http)].resp)
    /\ str_in(<<"T","e","m","p","e","r","a","t","u","r","e",":"," ","-","3">>, result)

(***************************************************************************)
(* C10                                                                     *)
(***************************************************************************)
IsPrefix(p, s) == Len(p) <= Len(s) /\ SubSeq(s, 1, Len(p)) = p

\* the string invoke returns for an error
IsErrorString(s) == IsPrefix(S_sorry, s) /\ str_in(S_rephrase, s)

\* the coordinates of the location were looked up and not found
LocationNotResolved ==
    /\ coords = <<>>
    /\ \E j \in 1..Len(http) :
          /\ http[j].req = FallbackRequest(upper(location))
          /\ raises(http[j].resp)

\* the provider answered the air-quality request with a failure
AirQualityFailed ==
    \E j \in 1..Len(http) :
        http[j].req.endpoint = "air_pollution" /\ raises(http[j].resp)

\* C10 as stated: a command never raises, and whenever the provider answered
\* one of its operations with a failure, or the location could not be
\* resolved, what the command returns is the error string.
C10_ErrorStringOnAnyFailure ==
    call.op = "handle_command" =>
        /\ pc # "raised"
        /\ ( /\ pc = "returned"
             /\ http # <<>>
             /\ (raises(http[1].resp) \/ AirQualityFailed \/ LocationNotResolved) )
           => IsErrorString(result)

\* C10 amended: a command never raises; when the current-conditions request
\* fails it returns the error string with the failure's text; when that
\* request is answered, a failed coordinate lookup or air-quality request is
\* passed over and the command returns the weather answer, not an error.
C10_NeverRaises ==
    call.op = "handle_command" =>
        /\ pc # "raised"
        /\ (pc = "returned" /\ http # <<>> /\ raises(http[1].resp)) =>
              /\ IsErrorString(result)
              /\ str_in(error_text(http[1].resp), result)
        /\ (pc = "returned" /\ http # <<>> /\ ~raises(http[1].resp)) =>
              /\ ~IsErrorString(result)
              /\ str_in(location, result)

\* the provider fails the current-conditions request of `air Karachi`
C10_Witness ==
    /\ call = Command(W_air, <<W_Karachi>>)
    /\ pc = "returned"
    /\ Len(http) = 1
    /\ http[1].resp.kind = "status"
    /\ IsErrorString(result)

(***************************************************************************)
(* ReviewAgent.review_response                                             *)
(***************************************************************************)
\* most lines in a text the language model returns
MaxReviewLines == 2

\* review_prompt = self.prompt_template.format(...): the template is fixed,
\* the prompt is held as the two values put into it
review_prompt(draft, q) == [weather_response |-> draft, original_query |-> q]

\* review.split('\n')[-1] if '\n' in review else review
last_line(review) ==
    LET breaks == {j \in 1..Len(review) : review[j] = "\n"}
    IN  IF breaks = {} THEN review
        ELSE SubSeq(review, (CHOOSE j \in breaks : \A h \in breaks : h <= j) + 1, Len(review))

\* the except clause lets the exception out of review_response
review_reraise(draft) == [pc |-> "raised", result |-> <<>>]

\* except Exception as e: logger.error(...); return weather_response
review_except(draft) == [pc |-> "returned", result |-> draft]

\* what self.llm.invoke may do: return a text, return something that is not
\* a str (the clean-up then raises), or raise
LlmOutcome(kind, text) == [kind |-> kind, text |-> text]

ReviewLines ==
    { <<"A","n","a","l","y","s","i","s",":">>,
      <<" "," ","I","t"," ","i","s"," ","s","u","n","n","y"," ","i","n"," ",
        "L","a","h","o","r","e","."," ">>,
      <<"1","."," ","S","u","n","n","y">>,
      <<>> }

RECURSIVE join_lines(_)
join_lines(lines) ==
    IF Len(lines) = 1 THEN lines[1]
    ELSE lines[1] \o <<"\n">> \o join_lines(Tail(lines))

LlmOutcomes ==
    {LlmOutcome("text", join_lines(ls)) :
        ls \in UNION {[1..n -> ReviewLines] : n \in 1..MaxReviewLines}}
    \cup {LlmOutcome("not_str", <<>>),
          LlmOutcome("raise", <<"A","P","I"," ","k","e","y"," ","m","i","s","s","i","n","g">>)}

review_response(draft, outcome) ==
    IF outcome.kind = "text"
    THEN [pc |-> "returned", result |-> strip(last_line(outcome.text))]
    ELSE review_except(draft)

Drafts ==
    { S_no_location,
      S_sorry \o S_api_error \o S_unknown_error \o S_rephrase,
      S_temp_in \o W_Karachi \o S_is \o str_int(31) \o S_deg_c_dot }

ReviewQueries ==
    { S_weather_query \o W_Lahore \o S_question_mark,
      S_temperature \o <<" ">> \o W_Karachi }

ReviewInit ==
    /\ weather_response \in Drafts
    /\ original_query \in ReviewQueries
    /\ review_pc = "call"
    /\ llm_calls = <<>>
    /\ reviewed = <<>>
    /\ QueryIdle
    /\ RecsIdle
    /\ ToolIdle
    /\ AppIdle
    /\ RouteIdle

ReviewResponse ==
    /\ review_pc = "call"
    /\ \E outcome \in LlmOutcomes :
        /\ llm_calls' = Append(llm_calls,
                               [prompt |-> review_prompt(weather_response, original_query),
                                outcome |-> outcome])
        /\ review_pc' = review_response(weather_response, outcome).pc
        /\ reviewed' = review_response(weather_response, outcome).result
    /\ UNCHANGED <<weather_response, original_query, notReview>>

ReviewNext == ReviewResponse

SpecReview == ReviewInit /\ [][ReviewNext]_vars

(***************************************************************************)
(* C8                                                                      *)
(***************************************************************************)
\* C8: review_response hands exactly one prompt to the language model, made
\* of the draft and the query, and never raises; when the call raises or its
\* answer cannot be cleaned up, the draft is returned unchanged.
C8_ReviewFallback ==
    review_pc # "call" =>
        /\ review_pc = "returned"
        /\ Len(llm_calls) = 1
        /\ llm_calls[1].prompt.weather_response = weather_response
        /\ llm_calls[1].prompt.original_query = original_query
        /\ llm_calls[1].outcome.kind # "text" => reviewed = weather_response

\* the language-model call raised and the draft came back
C8_Witness ==
    /\ review_pc = "returned"
    /\ llm_calls[1].outcome.kind = "raise"
    /\ reviewed = weather_response
    /\ weather_response = S_no_location

(***************************************************************************)
(* main and WeatherApp: start-up and the turn loop                         *)
(***************************************************************************)
\* most lines on standard input before it ends
MaxLines == 2

S_key_not_set ==
    <<"O","P","E","N","W","E","A","T","H","E","R","M","A","P","_","A","P","I","_","K","E","Y",
      " ","e","n","v","i","r","o","n","m","e","n","t"," ","v","a","r","i","a","b","l","e"," ",
      "i","s"," ","n","o","t"," ","s","e","t">>

W_exit ==
    <<"e","x","i","t">>

W_quit ==
    <<"q","u","i","t">>

L_quit_now ==
    <<"q","u","i","t"," ","n","o","w">>

\* messages of exceptions raised outside this repository, each held as one
\* opaque symbol
E_eof == <<"EOFError">>

InputLines ==
    { <<"w","e","a","t","h","e","r"," ","L","a","h","o","r","e">>,
      <<" "," ","E","X","I","T"," ">>,
      L_quit_now,
      <<"e","x","i","t","i","n","g">>,
      <<"W","h","a","t"," ","i","s"," ","r","a","i","n","?">>,
      <<"h","e","l","p">>,
      <<>> }

Printed(kind, text) == [kind |-> kind, text |-> text]

\* _parse_input with the command left in the case it was typed in
parse_input_as_typed(line) ==
    LET parts == split(strip(line))
    IN  IF parts = <<>> THEN [command |-> <<>>, args |-> <<>>]
        ELSE [command |-> parts[1], args |-> Tail(parts)]

\* WeatherApp._parse_input
parse_input(line) ==
    LET parts == split(strip(line))
    IN  IF parts = <<>> THEN [command |-> <<>>, args |-> <<>>]
        ELSE [command |-> lower(parts[1]), args |-> Tail(parts)]

\* WeatherTool.__init__ without the check of the key
weather_tool_init_unchecked(key_set) == [raised |-> FALSE, text |-> <<>>]

\* WeatherTool.__init__: raise ValueError when the key is not set
weather_tool_init(key_set) ==
    IF ~key_set THEN [raised |-> TRUE, text |-> S_key_not_set]
    ELSE [raised |-> FALSE, text |-> <<>>]

\* main: except Exception as e: print_error(...); return 1
main_except(e) ==
    [pc |-> "done", printed |-> Printed("error",
            <<"A","n"," ","u","n","e","x","p","e","c","t","e","d"," ","e","r","r","o","r",
              " ","o","c","c","u","r","r","e","d",":"," ">> \o e), exit_code |-> <<1>>]

\* the parameters of route_query
route_query_parameters == <<"query", "agent", "tool_selector", "review_agent">>

\* the call route_query(user_input, agent) of WeatherApp.run: Python binds the
\* arguments to the parameters before the body runs
call_route_query(arguments) ==
    IF Len(arguments) # Len(route_query_parameters)
    THEN [raised |-> TRUE,
          text |-> <<"TypeError: route_query() missing 2 required positional arguments">>]
    ELSE [raised |-> FALSE, text |-> <<"response">>]

\* run without its except clause: the exception reaches main
run_reraise(e) == main_except(e)

\* run: except Exception as e: formatCLI.print_error(str(e))
run_except(e) == [pc |-> "divider", printed |-> Printed("error", e), exit_code |-> <<>>]

AppInit ==
    /\ api_key_set \in BOOLEAN
    /\ llm_constructs \in BOOLEAN
    /\ stdin \in UNION {[1..n -> InputLines] : n \in 0..MaxLines}
    /\ app_pc = "start"
    /\ stdout = <<>>
    /\ exit_code = <<>>
    /\ user_input = <<>>
    /\ command = <<>>
    /\ args = <<>>
    /\ agent = <<>>
    /\ error = <<>>
    /\ failed_before = FALSE
    /\ QueryIdle
    /\ RecsIdle
    /\ ToolIdle
    /\ ReviewIdle
    /\ RouteIdle

\* app = WeatherApp(): get_llm(), then WeatherAgent(llm) with its WeatherTool()
AppStart ==
    /\ app_pc = "start"
    /\ LET raised ==
               IF ~llm_constructs THEN [raised |-> TRUE, text |-> <<"llm construction error">>]
               ELSE weather_tool_init(api_key_set)
       IN  IF raised.raised
           THEN /\ app_pc' = main_except(raised.text).pc
                /\ stdout' = Append(stdout, main_except(raised.text).printed)
                /\ exit_code' = main_except(raised.text).exit_code
           ELSE /\ app_pc' = "setup"
                /\ UNCHANGED <<stdout, exit_code>>
    /\ UNCHANGED <<api_key_set, llm_constructs, stdin, user_input, command, args, agent,
                   error, failed_before, notApp>>

\* app.setup(): the two banners
AppSetup ==
    /\ app_pc = "setup"
    /\ stdout' = stdout \o <<Printed("intro", <<>>), Printed("welcome", <<>>)>>
    /\ app_pc' = "input"
    /\ UNCHANGED <<api_key_set, llm_constructs, stdin, exit_code, user_input, command,
                   args, agent, error, failed_before, notApp>>

\* input(), _parse_input, the exit test and print_thinking; at the end of
\* input, input() raises EOFError
ReadInput ==
    /\ app_pc = "input"
    /\ IF stdin = <<>>
       THEN /\ error' = E_eof
            /\ app_pc' = "except"
            /\ stdout' = <<>>
            /\ UNCHANGED <<stdin, user_input, command, args, exit_code>>
       ELSE /\ user_input' = Head(stdin)
            /\ stdin' = Tail(stdin)
            /\ command' = parse_input(Head(stdin)).command
            /\ args' = parse_input(Head(stdin)).args
            /\ error' = <<>>
            /\ IF command' \in {W_exit, W_quit}
               THEN /\ stdout' = <<Printed("exit", <<>>)>>
                    /\ app_pc' = "done"
                    /\ exit_code' = <<0>>
               ELSE /\ stdout' = <<Printed("thinking", <<>>)>>
                    /\ app_pc' = "create_agent"
                    /\ UNCHANGED exit_code
    /\ UNCHANGED <<api_key_set, llm_constructs, agent, failed_before, notApp>>

\* memory = ConversationBufferMemory(...): a new object each time it is
\* constructed, told apart from the one the previous agent held by its number
new_memory(previous_agent) ==
    [id |-> IF previous_agent = <<>> THEN 1 ELSE previous_agent[1].memory.id + 1,
     entries |-> <<>>]

\* agent = create_hybrid_agent(verbose=True): the language model, the two
\* agents, the search tool and a fresh, empty conversation memory; the
\* constructors of the libraries may raise
CreateAgent ==
    /\ app_pc = "create_agent"
    /\ \E constructed \in BOOLEAN :
        IF constructed
        THEN /\ agent' = <<[memory |-> new_memory(agent)], "tool_selector", "review_agent">>
             /\ app_pc' = "route"
             /\ UNCHANGED error
        ELSE /\ error' = <<"agent construction error">>
             /\ app_pc' = "except"
             /\ UNCHANGED agent
    /\ UNCHANGED <<api_key_set, llm_constructs, stdin, stdout, exit_code, user_input,
                   command, args, failed_before, notApp>>

\* response = route_query(user_input, agent); print(format_agent_output(response))
RouteQuery ==
    /\ app_pc = "route"
    /\ LET called == call_route_query(<<user_input, agent>>)
       IN  IF called.raised
           THEN /\ error' = called.text
                /\ app_pc' = "except"
                /\ UNCHANGED stdout
           ELSE /\ stdout' = Append(stdout, Printed("agent", called.text))
                /\ app_pc' = "divider"
                /\ UNCHANGED error
    /\ UNCHANGED <<api_key_set, llm_constructs, stdin, exit_code, user_input, command,
                   args, agent, failed_before, notApp>>

RunExcept ==
    /\ app_pc = "except"
    /\ app_pc' = run_except(error).pc
    /\ stdout' = Append(stdout, run_except(error).printed)
    /\ exit_code' = run_except(error).exit_code
    /\ failed_before' = TRUE
    /\ UNCHANGED <<api_key_set, llm_constructs, stdin, user_input, command, args, agent,
                   error, notApp>>

\* formatCLI.print_divider(), and the loop starts over
PrintDivider ==
    /\ app_pc = "divider"
    /\ stdout' = Append(stdout, Printed("divider", <<>>))
    /\ app_pc' = "input"
    /\ UNCHANGED <<api_key_set, llm_constructs, stdin, exit_code, user_input, command,
                   args, agent, error, failed_before, notApp>>

\* Ctrl-C while the loop waits or works: main prints Goodbye! and returns 0
KeyboardInterrupt ==
    /\ app_pc \in {"input", "create_agent", "route", "except", "divider"}
    /\ stdout' = Append(stdout, Printed("goodbye", <<>>))
    /\ exit_code' = <<0>>
    /\ app_pc' = "done"
    /\ UNCHANGED <<api_key_set, llm_constructs, stdin, user_input, command, args, agent,
                   error, failed_before, notApp>>

AppNext ==
    \/ AppStart
    \/ AppSetup
    \/ ReadInput
    \/ CreateAgent
    \/ RouteQuery
    \/ RunExcept
    \/ PrintDivider
    \/ KeyboardInterrupt

SpecApp == AppInit /\ [][AppNext]_vars

\* the interpreter runs the next statement of main whenever there is one; an
\* interrupt is up to the user
SpecAppLive ==
    SpecApp /\ WF_vars(AppStart \/ AppSetup \/ ReadInput \/ CreateAgent \/ RouteQuery
                           \/ RunExcept \/ PrintDivider)

(***************************************************************************)
(* C7                                                                      *)
(***************************************************************************)
\* C7: with the weather key absent at start-up, main never reaches setup or
\* the turn loop and makes no HTTP or language-model call; it ends having
\* printed one error (the key's, when the language model was constructed)
\* and returned 1.
C7_MissingKeyIsFatal ==
    ~api_key_set =>
        /\ app_pc \in {"start", "done"}
        /\ http = <<>>
        /\ llm_calls = <<>>
        /\ user_input = <<>>
        /\ app_pc = "done" =>
              /\ exit_code = <<1>>
              /\ Len(stdout) = 1
              /\ stdout[1].kind = "error"
              /\ llm_constructs => str_in(S_key_not_set, stdout[1].text)

\* the key is absent, the language model was constructed, main returned 1
C7_Witness ==
    /\ ~api_key_set
    /\ llm_constructs
    /\ stdin # <<>>
    /\ app_pc = "done"
    /\ exit_code = <<1>>

(***************************************************************************)
(* C9                                                                      *)
(***************************************************************************)
\* what a turn that raised has printed when its except clause is done: the
\* thinking line if the line was read, then the error
RaisedTurnOutput ==
    (IF error = E_eof THEN <<>> ELSE <<Printed("thinking", <<>>)>>)
        \o <<Printed("error", error)>>

\* in every state: an error being handled has not ended the process, main
\* never returns 1 once a turn has raised, and a turn that raised has printed
\* its error and nothing else, whether or not an earlier turn raised
C9_State ==
    /\ app_pc = "except" => (error # <<>> /\ exit_code = <<>>)
    /\ failed_before => exit_code # <<1>>
    /\ (app_pc = "divider" /\ error # <<>>) =>
          (stdout = RaisedTurnOutput /\ exit_code = <<>>)
    /\ app_pc \in {"create_agent", "route"} =>
          /\ command = parse_input(user_input).command
          /\ command \notin {W_exit, W_quit}
    /\ app_pc = "route" => agent[1].memory.entries = <<>>

\* in every step: the except clause prints the error and goes on to the
\* divider, and after the divider the loop prompts again; only Ctrl-C, which
\* is no error of the turn, leaves the loop from there
C9_Step ==
    /\ app_pc = "except" =>
          \/ /\ app_pc' = "divider"
             /\ stdout' = Append(stdout, Printed("error", error))
             /\ exit_code' = <<>>
          \/ /\ app_pc' = "done"
             /\ exit_code' = <<0>>
             /\ stdout'[Len(stdout')].kind = "goodbye"
    /\ app_pc = "divider" =>
          \/ app_pc' = "input" /\ exit_code' = <<>>
          \/ /\ app_pc' = "done"
             /\ exit_code' = <<0>>
             /\ stdout'[Len(stdout')].kind = "goodbye"

\* C9: an error raised while a turn is handled is caught in that turn and
\* printed, the loop then prompts for the next turn, the error never ends the
\* process, and the turn after a failed turn is handled like any other turn.
C9_TurnErrorsAreCaught == []C9_State /\ [][C9_Step]_vars

\* a turn raised, and a later turn read `quit now` and left with code 0
C9_Witness ==
    /\ failed_before
    /\ app_pc = "done"
    /\ user_input = L_quit_now
    /\ stdout = <<Printed("exit", <<>>)>>
    /\ exit_code = <<0>>

(***************************************************************************)
(* C11                                                                     *)
(***************************************************************************)
\* the geocoding lookups made so far, and the lookups of the second pass on
\* the current-conditions endpoint (sent without units)
GeocodeLog == SelectSeq(http, LAMBDA h : h.req.endpoint = "geo/1.0/direct")

FallbackLog ==
    SelectSeq(http, LAMBDA h : h.req.endpoint = "weather" /\ h.req.units = <<>>)

\* the five names in the order the claim gives them
NamedVariations(loc) ==
    <<loc,
      loc \o <<",","P","K">>,
      loc \o <<",","P","a","k","i","s","t","a","n">>,
      title(loc),
      upper(loc)>>

ResolutionDone == GeocodeLog # <<>> /\ pc \notin {"geocode", "fallback"}

AllGeocodingFailed ==
    /\ Len(GeocodeLog) = 5
    /\ \A n \in 1..5 : ~geocode_found(GeocodeLog[n].resp)

\* resolution failed: no coordinates, and a direct caller of the tool
\* receives the location-not-found error
ResolutionFailed ==
    /\ coords = <<>>
    /\ call.op # "handle_command" =>
          /\ pc = "raised"
          /\ result = coordinates_not_found(call, location).result

\* C11 as stated: once the geocoding lookup has failed for all five
\* variations, coordinate resolution ends in the location-not-found failure.
C11_FailsAfterFiveGeocodings ==
    (ResolutionDone /\ AllGeocodingFailed) => ResolutionFailed

\* C11 amended: the geocoding lookup is made on the five variations in the
\* order raw, country code, country name, title case, upper case, stopping at
\* the first non-empty answer, whose coordinates are returned; when all five
\* fail the current-conditions endpoint is asked with the same five names in
\* the same order and the coordinates of its first successful answer are
\* returned; resolution fails only when those five requests fail as well.
C11_CoordinateResolution ==
    LET g == GeocodeLog
        f == FallbackLog
        v == NamedVariations(location)
    IN  /\ Len(g) <= 5
        /\ \A n \in 1..Len(g) : g[n].req = GeocodeRequest(v[n])
        /\ \A n \in 1..(Len(g) - 1) : ~geocode_found(g[n].resp)
        /\ f # <<>> => AllGeocodingFailed
        /\ Len(f) <= 5
        /\ \A n \in 1..Len(f) : f[n].req = FallbackRequest(v[n])
        /\ \A n \in 1..(Len(f) - 1) : raises(f[n].resp)
        /\ ResolutionDone =>
              IF f = <<>>
              THEN /\ geocode_found(g[Len(g)].resp)
                   /\ coords = g[Len(g)].resp.data[1]
              ELSE IF ~raises(f[Len(f)].resp)
              THEN coords = f[Len(f)].resp.data[1]
              ELSE Len(f) = 5 /\ ResolutionFailed

\* the title-case variation is the first one that is found
C11_Witness ==
    /\ ResolutionDone
    /\ call.location = <<"n","e","w"," ","y","o","r","k">>
    /\ Len(GeocodeLog) = 4
    /\ FallbackLog = <<>>
    /\ GeocodeLog[4].req.q = << <<"N","e","w"," ","Y","o","r","k">> >>
    /\ coords = GeocodeLog[4].resp.data[1]

(***************************************************************************)
(* C12                                                                     *)
(***************************************************************************)
\* C12: while one weather query is handled no request is sent twice with the
\* same endpoint and the same parameters.
C12_NoRepeatedRequest ==
    call.op = "handle_command" =>
        \A m, n \in 1..Len(http) : m < n => http[m].req # http[n].req

max_iterations == 2

\* what agent.invoke({"input": query}) may return: the executor, built with
\* return_intermediate_steps=True, gives a dict with "output" and with
\* "intermediate_steps", one (action, observation) tuple per tool it called;
\* the action is an object of the library, not a dict
AgentResponses ==
    {[is_dict |-> TRUE, output |-> <<out>>, steps |-> steps] :
        out \in {S_temp_in \o W_Karachi \o S_is \o str_int(31) \o S_deg_c_dot,
                 <<"I"," ","d","o"," ","n","o","t"," ","k","n","o","w",".">>},
        steps \in UNION {[1..n -> {[tool |-> tl, action_is_dict |-> FALSE,
                                    observation |-> <<"observation">>] :
                                      tl \in {"web_search", "weather_agent"}}] :
                            n \in 0..max_iterations}}

\* except Exception as e: return f"An error occurred while processing ..."
route_except(e) ==
    <<"A","n"," ","e","r","r","o","r"," ","o","c","c","u","r","r","e","d"," ","w","h","i",
      "l","e"," ","p","r","o","c","e","s","s","i","n","g"," ","y","o","u","r"," ","q","u",
      "e","r","y",":"," ">> \o e

\* the extraction of final_response from response; tool_raises tells whether
\* tool.func raises when route_query runs the tool of the last step itself;
\* <<>> when no branch binds final_response, <<text>> otherwise
extract_final_response(r, tool_raises) ==
    IF ~r.is_dict THEN << <<"str(response)">> >>
    ELSE IF r.output # <<>> THEN <<r.output[1]>>
    ELSE IF r.steps # <<>>
    THEN LET last_step == r.steps[Len(r.steps)]
         IN  IF last_step.action_is_dict
             THEN IF last_step.tool \notin {"web_search", "weather_agent"} THEN <<>>
                  ELSE IF tool_raises
                  THEN << <<"Sorry, I encountered an error while searching">> >>
                  ELSE IF last_step.tool = "web_search"
                  THEN << <<"format_web_search_response">> \o last_step.observation >>
                  ELSE <<last_step.observation>>
             ELSE <<last_step.observation>>
    ELSE << <<"str(response)">> >>

RouteInputs ==
    { S_weather_query \o W_Lahore \o S_question_mark,
      <<"I","s"," ","i","t"," ","h","o","t"," ","i","n"," ">> \o W_Karachi \o S_question_mark,
      <<"K","a","r","a","c","h","i"," ","n","e","w","s">>,
      <<"R","A","I","N"," ","s","o","n","g","s">> }

RouteInit ==
    /\ route_pc = "select_tool"
    /\ route_input \in RouteInputs
    /\ route_tool = "none"
    /\ response = <<>>
    /\ final_response = <<>>
    /\ review_args = <<>>
    /\ chat_history = <<>>
    /\ route_result = <<>>
    /\ QueryIdle
    /\ RecsIdle
    /\ ToolIdle
    /\ ReviewIdle
    /\ AppIdle

\* recommended_tool = tool_selector.select_tool(query)
RouteSelectTool ==
    /\ route_pc = "select_tool"
    /\ route_tool' = select_tool(route_input)
    /\ route_pc' = "invoke"
    /\ UNCHANGED <<route_input, response, final_response, review_args, chat_history,
                   route_result, notRoute>>

\* response = agent.invoke({"input": query}): the agent answers, with the
\* exchange saved to its memory, or raises
AgentInvoke ==
    /\ route_pc = "invoke"
    /\ \/ \E r \in AgentResponses :
            /\ response' = r
            /\ chat_history' = Append(chat_history,
                                      [input |-> route_input, output |-> r.output[1]])
            /\ route_pc' = "extract"
            /\ UNCHANGED route_result
       \/ /\ route_result' = route_except(<<"agent.invoke error">>)
          /\ route_pc' = "returned"
          /\ UNCHANGED <<response, chat_history>>
    /\ UNCHANGED <<route_input, route_tool, final_response, review_args, notRoute>>

\* the isinstance / "output" / "intermediate_steps" cascade, then the test
\* of recommended_tool; reading an unbound final_response raises
RouteExtract ==
    /\ route_pc = "extract"
    /\ \E tool_raises \in BOOLEAN :
        LET extracted_response == extract_final_response(response, tool_raises)
        IN  IF extracted_response = <<>>
            THEN /\ route_result' = route_except(<<"UnboundLocalError">>)
                 /\ route_pc' = "returned"
                 /\ UNCHANGED final_response
            ELSE /\ final_response' = extracted_response
                 /\ route_pc' = (IF route_tool = "weather_agent" THEN "review" ELSE "return")
                 /\ UNCHANGED route_result
    /\ UNCHANGED <<route_input, route_tool, response, review_args, chat_history, notRoute>>

\* final_response = review_agent.review_response(final_response, query)
RouteReview ==
    /\ route_pc = "review"
    /\ \E outcome \in LlmOutcomes :
        final_response' = <<review_response(final_response[1], outcome).result>>
    /\ review_args' = Append(review_args, <<final_response[1], route_input>>)
    /\ route_pc' = "return"
    /\ UNCHANGED <<route_input, route_tool, response, chat_history, route_result, notRoute>>

\* return final_response
RouteReturn ==
    /\ route_pc = "return"
    /\ route_result' = final_response[1]
    /\ route_pc' = "returned"
    /\ UNCHANGED <<route_input, route_tool, response, final_response, review_args,
                   chat_history, notRoute>>

RouteNext ==
    \/ RouteSelectTool
    \/ AgentInvoke
    \/ RouteExtract
    \/ RouteReview
    \/ RouteReturn

SpecRoute == RouteInit /\ [][RouteNext]_vars

(***************************************************************************)
(* C14                                                                     *)
(***************************************************************************)
\* the tool whose observation the agent's answer rests on: the last one it
\* called, "none" when it called no tool or did not answer
AnswerProducedBy ==
    IF response = <<>> \/ response.steps = <<>> THEN "none"
    ELSE response.steps[Len(response.steps)].tool

\* C14: when route_query has returned, the reviewer was invoked if and only
\* if the turn's answer was produced by the weather_agent tool; an answer of
\* the search tool is never reviewed, nor is a turn whose agent call failed.
C14_ReviewOnWeatherPathOnly ==
    route_pc = "returned" =>
        /\ review_args # <<>> <=> AnswerProducedBy = "weather_agent"
        /\ AnswerProducedBy = "web_search" => review_args = <<>>
        /\ response = <<>> => review_args = <<>>

(***************************************************************************)
(* C15                                                                     *)
(***************************************************************************)
\* a turn that read a line and met no failure outside this program (end of
\* input, a constructor of a library) has run to its end
TurnEnded ==
    /\ app_pc = "divider"
    /\ stdout # <<>>
    /\ stdout[1].kind = "thinking"
    /\ error # <<"agent construction error">>

\* C15: every non-exit turn ends by printing a formatted agent response, and
\* a line whose first token is a verb of the command dispatcher is answered
\* by the handler of that verb: `help` prints the help text.
C15_VerbsAreDispatched ==
    TurnEnded =>
        /\ \E n \in 1..Len(stdout) : stdout[n].kind = "agent"
        /\ command = <<"h","e","l","p">> =>
              \E n \in 1..Len(stdout) : stdout[n] = Printed("agent", handle_help(args).text)

(***************************************************************************)
(* C16                                                                     *)
(***************************************************************************)
\* the first whitespace-separated token of a line, lowercased
FirstToken(line) ==
    LET tokens == split(strip(line))
    IN  IF tokens = <<>> THEN <<>> ELSE lower(tokens[1])

ExitWords == {<<"e","x","i","t">>, <<"q","u","i","t">>}

Interrupted == stdout' = Append(stdout, Printed("goodbye", <<>>))

\* one step of the loop: reading an exit line ends the process with code 0
\* and leaves the agent alone; the loop is left only that way or by an
\* interrupt, both with code 0
C16_Step ==
    /\ (app_pc = "input" /\ stdin # <<>> /\ FirstToken(Head(stdin)) \in ExitWords) =>
          /\ app_pc' = "done"
          /\ exit_code' = <<0>>
          /\ agent' = agent
          /\ Interrupted \/ stdout' = <<Printed("exit", <<>>)>>
    /\ (app_pc \in {"input", "create_agent", "route", "except", "divider"}
            /\ app_pc' = "done") =>
          /\ exit_code' = <<0>>
          /\ \/ Interrupted
             \/ app_pc = "input" /\ stdin # <<>> /\ FirstToken(Head(stdin)) \in ExitWords
    /\ (app_pc \in {"input", "create_agent", "route", "except", "divider"}
            /\ app_pc' # "done") =>
          /\ exit_code' = <<>>
          /\ app_pc' \in {"input", "create_agent", "route", "except", "divider"}

\* C16: a turn whose first token, lowercased, is exit or quit ends the loop
\* with exit code 0 and creates no agent; a keyboard interrupt in the loop
\* also ends the process with exit code 0; nothing else ends the loop.
C16_ExitEndsTheLoop == [][C16_Step]_vars

\* the line "  EXIT " read as the second line, after a turn that went through
C16_Witness ==
    /\ app_pc = "done"
    /\ user_input = <<" "," ","E","X","I","T"," ">>
    /\ stdout = <<Printed("exit", <<>>)>>
    /\ exit_code = <<0>>
    /\ agent # <<>>
    /\ agent[1].memory.id = 1

(***************************************************************************)
(* C17                                                                     *)
(***************************************************************************)
\* the arguments without a trailing all-digit day count
LocationTokens(a) ==
    IF Len(a) > 1 /\ isdigit(a[Len(a)]) THEN SubSeq(a, 1, Len(a) - 1) ELSE a

DayCount(a) ==
    IF Len(a) > 1 /\ isdigit(a[Len(a)]) THEN parse_int(a[Len(a)]) ELSE 3

\* C17: forecast with at least one argument forwards the query "What's the
\* <days>-day forecast for <location>?" where the location is every argument
\* but a trailing day count and days is that count, or 3 without one.
C17_ForecastKeepsLocation ==
    (/\ call.op = "handle_command"
     /\ call.command = W_forecast
     /\ call.args # <<>>
     /\ pc # "handle_command") =>
        invoke_query =
            <<"W","h","a","t","'","s"," ","t","h","e"," ">> \o str_int(DayCount(call.args))
            \o <<"-","d","a","y"," ","f","o","r","e","c","a","s","t"," ","f","o","r"," ">>
            \o join(LocationTokens(call.args)) \o <<"?">>

(***************************************************************************)
(* C18                                                                     *)
(***************************************************************************)
\* C18: whatever the input, and it always ends, the process eventually
\* leaves the loop and exits.
C18_TerminatesAtEndOfInput == <>(app_pc = "done")
====
